---- MODULE Spec2Model ----
(***************************************************************************)
(* A model of llm_arxiv.py: the document assembler _process_arxiv_paper    *)
(* (specification Spec) and the two parsers parse_ranges_to_set and        *)
(* parse_image_selection_spec (specification SpecParse).                   *)
(*                                                                         *)
(* Strings are sequences of one-character strings.  A page's markup is a   *)
(* sequence of items: its text, raw <img> markers and, after the           *)
(* substitution, placeholders.  The collaborators (arXiv search, download, *)
(* PyMuPDF, Pillow) answer nondeterministically.                           *)
(***************************************************************************)
EXTENDS Integers, Sequences, FiniteSets, TLC

\* ------------------------------------------------------------------ bounds
\* pages of a document
MaxPages == 3
\* embedded images of a document, all pages together
MaxImgs == 3
\* <img> markers in the markup of one page
MaxMarkers == 2
\* largest number a Global or Pages criteria names
MaxSel == 2
\* comma-separated parts of a range string
MaxTokens == 2
\* whitespace characters added before and after a selection string
MaxPad == 1

\* Longest run of digits on one side of the dot of a new-style identifier.
MaxRun == 5

\* Largest small image side and small pixel bound.
MaxDim == 5

VARIABLES
    pc,                          \* position in _process_arxiv_paper
    image_selection_criteria,    \* the criteria argument
    temp_dir,                    \* "none", "exists" or "removed"
    page_num,                    \* enumerate(doc): 0-based index of the page
    page_html_content,           \* markup of the current page
    image_list,                  \* number of entries page.get_images returned
    img_idx_on_page,             \* 0-based index of the next image of the page
    global_image_document_idx_counter,
    current_page_conceptual_refs_for_placeholders,
    current_page_attachments_for_this_page,
    full_html_parts,
    attachments_list,
    ret,                         \* what the call returned
    error,                       \* what the call raised
    seen_counter,                \* counter value seen by each enumerated image
    images_per_page,             \* length of image_list of every page read
    arxiv_id_or_url_main,        \* the identifier argument of the call
    calls,                       \* calls made to the arXiv client and to the PDF library
    doc_images,                  \* images embedded in each page read, asked for or not
    extract_calls,               \* the images doc.extract_image was called for, in order
    range_str,                   \* argument of parse_ranges_to_set
    spec_string,                 \* argument of parse_image_selection_spec
    base_spec,                   \* spec_string before padding and case change
    parse_pc,                    \* "idle", "ranges", "selection", "done_ranges", "done_selection"
    parse_result,                \* outcome of the parser that ran
    argument,                    \* argument of extract_arxiv_id
    arg_shape,                   \* how that argument was put together
    id_pc,                       \* "idle", "call", "done"
    id_result,                   \* what extract_arxiv_id returned
    resize_call,                 \* where the resize option comes from, and from what
    resize_option,               \* the resize_option argument
    img_size,                    \* width and height of the opened image
    resize_pc,                   \* "idle", "cli", "fragment", "image", "done"
    resized,                     \* perform_resize, max_dim_to_use and the size after the step
    loader_argument,             \* the argument of arxiv_loader
    loader_pc,                   \* "direct", "idle", "call", "processing", "returned", "raised"
    loader_result,               \* the list arxiv_loader returned
    loader_error                 \* what arxiv_loader raised

vars == << pc, image_selection_criteria, temp_dir, page_num, page_html_content,
           image_list, img_idx_on_page, global_image_document_idx_counter,
           current_page_conceptual_refs_for_placeholders,
           current_page_attachments_for_this_page, full_html_parts,
           attachments_list, ret, error, seen_counter, images_per_page,
           arxiv_id_or_url_main, calls, doc_images, extract_calls,
           range_str, spec_string, base_spec, parse_pc, parse_result,
           argument, arg_shape, id_pc, id_result,
           resize_call, resize_option, img_size, resize_pc, resized,
           loader_argument, loader_pc, loader_result, loader_error >>

asm_vars == << pc, image_selection_criteria, temp_dir, page_num, page_html_content,
               image_list, img_idx_on_page, global_image_document_idx_counter,
               current_page_conceptual_refs_for_placeholders,
               current_page_attachments_for_this_page, full_html_parts,
               attachments_list, ret, error, seen_counter, images_per_page,
               arxiv_id_or_url_main, calls, doc_images, extract_calls >>

parse_vars == << range_str, spec_string, base_spec, parse_pc, parse_result >>

id_vars == << argument, arg_shape, id_pc, id_result >>

resize_vars == << resize_call, resize_option, img_size, resize_pc, resized >>

loader_vars == << loader_argument, loader_pc, loader_result, loader_error >>

\* ---------------------------------------------------------------- criteria
\* None: no images requested.
Absent == [mode |-> "none", indices |-> {}]

All == [mode |-> "all", indices |-> {}]

Global(S) == [mode |-> "global", indices |-> S]

Pages(S) == [mode |-> "pages", indices |-> S]

SelSets == SUBSET (1..MaxSel) \ {{}}

CriteriaValues == {Absent, All} \cup {Global(S) : S \in SelSets} \cup {Pages(S) : S \in SelSets}

\* A test that takes every criteria, None too, for present.
CriteriaPresent_Always(c) == TRUE

\* Line 135, `if image_selection_criteria:` a dict with a mode is truthy,
\* None is not.
CriteriaPresent(c) == c # Absent

\* ------------------------------------------------------------------ markup
TextItem(p) == [kind |-> "text", page |-> p, img |-> 0]

ImgMarker == [kind |-> "img", page |-> 0, img |-> 0]

\* f"<p>[IMAGE: {paper_source_url}#page_{page_num + 1}_img_{img_idx_on_page + 1}]</p>"
Placeholder(ref) == [kind |-> "placeholder", page |-> ref.page, img |-> ref.img]

\* The markup page.get_text("html") gives for page p with k <img> markers.
PageHtml(p, k) == <<TextItem(p)>> \o [j \in 1..k |-> ImgMarker]

RECURSIVE ReSubImg_KeepsLeftover(_, _)
\* A substitution that leaves a marker in place once the placeholders are used up.
ReSubImg_KeepsLeftover(html, refs) ==
    IF html = << >> \/ refs = << >> THEN html
    ELSE IF Head(html).kind = "img"
         THEN <<Placeholder(Head(refs))>> \o ReSubImg_KeepsLeftover(Tail(html), Tail(refs))
         ELSE <<Head(html)>> \o ReSubImg_KeepsLeftover(Tail(html), refs)

RECURSIVE ReSubImg(_, _)
\* re.sub(r"<img[^>]*>", replace_img_with_placeholder_fn, html): every marker
\* takes the next placeholder of the iterator, or "" once it is exhausted.
ReSubImg(html, refs) ==
    IF html = << >> THEN << >>
    ELSE IF Head(html).kind = "img"
         THEN IF refs # << >>
              THEN <<Placeholder(Head(refs))>> \o ReSubImg(Tail(html), Tail(refs))
              ELSE ReSubImg(Tail(html), refs)
         ELSE <<Head(html)>> \o ReSubImg(Tail(html), refs)

RECURSIVE Join_LastFirst(_)
\* A joining that puts the last part first.
Join_LastFirst(parts) ==
    IF parts = << >> THEN << >>
    ELSE Join_LastFirst(Tail(parts)) \o Head(parts)

RECURSIVE Join(_)
\* "".join(full_html_parts)
Join(parts) == IF parts = << >> THEN << >> ELSE Head(parts) \o Join(Tail(parts))

IsNotImg(item) == item.kind # "img"

\* markdownify.markdownify(html, strip=['img']): text and placeholders are
\* kept in order, any <img> left is stripped.
Markdownify(html) == SelectSeq(html, IsNotImg)

\* ----------------------------------------------------------------- strings
\* Whitespace str.strip() and int() remove (the two characters modelled).
Whitespace == {" ", "\t"}

UpperLetters == <<"A", "E", "F", "G", "L", "N", "O", "P", "R", "S", "T", "U", "X", "Y">>

LowerLetters == <<"a", "e", "f", "g", "l", "n", "o", "p", "r", "s", "t", "u", "x", "y">>

\* str.lower() on one character.
LowerChar(c) ==
    IF \E i \in 1..Len(UpperLetters) : UpperLetters[i] = c
    THEN LowerLetters[CHOOSE i \in 1..Len(UpperLetters) : UpperLetters[i] = c]
    ELSE c

\* str.upper() on one character.
UpperChar(c) ==
    IF \E i \in 1..Len(LowerLetters) : LowerLetters[i] = c
    THEN UpperLetters[CHOOSE i \in 1..Len(LowerLetters) : LowerLetters[i] = c]
    ELSE c

\* str.lower()
Lower(s) == [i \in 1..Len(s) |-> LowerChar(s[i])]

\* str.upper()
Upper(s) == [i \in 1..Len(s) |-> UpperChar(s[i])]

RECURSIVE LStrip(_)
LStrip(s) == IF s # << >> /\ Head(s) \in Whitespace THEN LStrip(Tail(s)) ELSE s

RECURSIVE RStrip(_)
RStrip(s) ==
    IF s # << >> /\ s[Len(s)] \in Whitespace THEN RStrip(SubSeq(s, 1, Len(s) - 1)) ELSE s

\* str.strip()
Strip(s) == RStrip(LStrip(s))

\* Position of the first c in s, 0 when there is none.
IndexOf(s, c) ==
    IF \E i \in 1..Len(s) : s[i] = c
    THEN CHOOSE i \in 1..Len(s) : s[i] = c /\ \A j \in 1..(i - 1) : s[j] # c
    ELSE 0

RECURSIVE Split(_, _)
\* str.split(sep) for a one-character separator.
Split(s, sep) ==
    LET i == IndexOf(s, sep)
    IN  IF i = 0 THEN <<s>>
        ELSE <<SubSeq(s, 1, i - 1)>> \o Split(SubSeq(s, i + 1, Len(s)), sep)

\* s.startswith(prefix)
StartsWith(s, prefix) == Len(s) >= Len(prefix) /\ SubSeq(s, 1, Len(prefix)) = prefix

\* s[n:]
SliceFrom(s, n) == SubSeq(s, n + 1, Len(s))

Digits == <<"0", "1", "2", "3", "4", "5", "6", "7", "8", "9">>

IsDigit(c) == \E i \in 1..Len(Digits) : Digits[i] = c

DigitVal(c) == (CHOOSE i \in 1..Len(Digits) : Digits[i] = c) - 1

RECURSIVE DigitsVal(_)
DigitsVal(ds) ==
    IF ds = << >> THEN 0 ELSE DigitsVal(SubSeq(ds, 1, Len(ds) - 1)) * 10 + DigitVal(ds[Len(ds)])

\* int(s): surrounding whitespace is dropped, one sign is allowed, then only
\* digits (the underscore digit separator is outside the alphabet modelled).
PyInt(s) ==
    LET t == Strip(s)
        signed == t # << >> /\ Head(t) \in {"+", "-"}
        ds == IF signed THEN Tail(t) ELSE t
    IN  IF ds = << >> \/ \E i \in 1..Len(ds) : ~IsDigit(ds[i])
        THEN [ok |-> FALSE, val |-> 0]
        ELSE [ok |-> TRUE,
              val |-> IF signed /\ Head(t) = "-" THEN 0 - DigitsVal(ds) ELSE DigitsVal(ds)]

\* ------------------------------------------------------------------ parsers
ParsedSet(S) == [raised |-> FALSE, value |-> Absent, set |-> S, err |-> "", echo |-> << >>]

ParsedValue(c) == [raised |-> FALSE, value |-> c, set |-> {}, err |-> "", echo |-> << >>]

ParseError(tag, input) ==
    [raised |-> TRUE, value |-> Absent, set |-> {}, err |-> tag, echo |-> input]

\* A pair whose end is left out, as range(start, end) would.
ParseRangePart_ExclusiveEnd(part) ==
    LET i == IndexOf(part, "-")
        start == PyInt(SubSeq(part, 1, i - 1))
        end == PyInt(SubSeq(part, i + 1, Len(part)))
    IN  IF ~start.ok \/ ~end.ok THEN ParseError("range_part", part)
        ELSE IF start.val <= 0 \/ end.val <= 0 THEN ParseError("range_part", part)
        ELSE IF start.val > end.val THEN ParseError("range_part", part)
        ELSE ParsedSet(start.val..(end.val - 1))

\* Lines 36-47: a part that holds a '-'.
ParseRangePart(part) ==
    LET i == IndexOf(part, "-")
        start == PyInt(SubSeq(part, 1, i - 1))
        end == PyInt(SubSeq(part, i + 1, Len(part)))
    IN  IF ~start.ok \/ ~end.ok THEN ParseError("range_part", part)
        ELSE IF start.val <= 0 \/ end.val <= 0 THEN ParseError("range_part", part)
        ELSE IF start.val > end.val THEN ParseError("range_part", part)
        ELSE ParsedSet(start.val..end.val)

\* Lines 48-55: a part without '-'.
ParseNumberPart(part) ==
    LET val == PyInt(part)
    IN  IF ~val.ok THEN ParseError("number", part)
        ELSE IF val.val <= 0 THEN ParseError("number", part)
        ELSE ParsedSet({val.val})

\* An iteration that fails on a part that is empty once trimmed.
ParsePart_EmptyFails(raw) ==
    LET part == Strip(raw)
    IN  IF part = << >> THEN ParseError("number", part)
        ELSE IF IndexOf(part, "-") # 0 THEN ParseRangePart(part)
        ELSE ParseNumberPart(part)

\* Lines 33-55: one iteration of the loop over parts.
ParsePart(raw) ==
    LET part == Strip(raw)
    IN  IF part = << >> THEN ParsedSet({})
        ELSE IF IndexOf(part, "-") # 0 THEN ParseRangePart(part)
        ELSE ParseNumberPart(part)

RECURSIVE ParseParts(_, _)
\* Lines 32-56: the loop; the first part that fails ends the call.
ParseParts(parts, result) ==
    IF parts = << >> THEN ParsedSet(result)
    ELSE LET one == ParsePart(Head(parts))
         IN  IF one.raised THEN one
             ELSE ParseParts(Tail(parts), result \cup one.set)

\* Lines 26-56.
parse_ranges_to_set(str) ==
    IF str = << >> THEN ParsedSet({})
    ELSE ParseParts(Split(str, ","), {})

\* The argument None.
PyNone == <<"None">>

AllWords == {<<"a", "l", "l">>, <<"t", "r", "u", "e">>, <<"y", "e", "s">>, <<"1">>}

NoneWords == {<<"n", "o", "n", "e">>, <<"f", "a", "l", "s", "e">>, <<"n", "o">>, <<"0">>}

\* An indexed form that accepts an empty set.
ParseIndexed_NoEmptyCheck(spec, mode, tag) ==
    LET indices == parse_ranges_to_set(SliceFrom(spec, 2))
    IN  IF indices.raised THEN ParseError(tag, spec)
        ELSE ParsedValue([mode |-> mode, indices |-> indices.set])

\* Lines 76-82 and 84-90: the remainder after the two-character prefix is
\* parsed; an error or an empty set is raised again under the tag of the form.
ParseIndexed(spec, mode, tag) ==
    LET indices == parse_ranges_to_set(SliceFrom(spec, 2))
    IN  IF indices.raised THEN ParseError(tag, spec)
        ELSE IF indices.set = {} THEN ParseError(tag, spec)
        ELSE ParsedValue([mode |-> mode, indices |-> indices.set])

\* A parser whose last error quotes the trimmed, lower-cased copy.
parse_image_selection_spec_EchoesLower(spec) ==
    IF spec = PyNone THEN ParsedValue(Absent)
    ELSE LET s_lower == Strip(Lower(spec))
         IN  IF s_lower = << >> \/ s_lower \in AllWords THEN ParsedValue(All)
             ELSE IF s_lower \in NoneWords THEN ParsedValue(Absent)
             ELSE IF StartsWith(s_lower, <<"g", ":">>) THEN ParseIndexed(spec, "global", "global")
             ELSE IF StartsWith(s_lower, <<"p", ":">>) THEN ParseIndexed(spec, "pages", "pages")
             ELSE ParseError("format", s_lower)

\* A parser that takes the empty string for "no images".
parse_image_selection_spec_EmptyIsNone(spec) ==
    IF spec = PyNone THEN ParsedValue(Absent)
    ELSE LET s_lower == Strip(Lower(spec))
         IN  IF s_lower = << >> THEN ParsedValue(Absent)
             ELSE IF s_lower \in AllWords THEN ParsedValue(All)
             ELSE IF s_lower \in NoneWords THEN ParsedValue(Absent)
             ELSE IF StartsWith(s_lower, <<"g", ":">>) THEN ParseIndexed(spec, "global", "global")
             ELSE IF StartsWith(s_lower, <<"p", ":">>) THEN ParseIndexed(spec, "pages", "pages")
             ELSE ParseError("format", spec)

\* Lines 59-95.
parse_image_selection_spec(spec) ==
    IF spec = PyNone THEN ParsedValue(Absent)
    ELSE LET s_lower == Strip(Lower(spec))
         IN  IF s_lower = << >> \/ s_lower \in AllWords THEN ParsedValue(All)
             ELSE IF s_lower \in NoneWords THEN ParsedValue(Absent)
             ELSE IF StartsWith(s_lower, <<"g", ":">>) THEN ParseIndexed(spec, "global", "global")
             ELSE IF StartsWith(s_lower, <<"p", ":">>) THEN ParseIndexed(spec, "pages", "pages")
             ELSE ParseError("format", spec)

\* --------------------------------------------------------------- identifier
AsciiLower ==
    { "a", "b", "c", "d", "e", "f", "g", "h", "i", "j", "k", "l", "m",
      "n", "o", "p", "q", "r", "s", "t", "u", "v", "w", "x", "y", "z" }

AsciiUpper ==
    { "A", "B", "C", "D", "E", "F", "G", "H", "I", "J", "K", "L", "M",
      "N", "O", "P", "Q", "R", "S", "T", "U", "V", "W", "X", "Y", "Z" }

\* Lines 290 and 294: the 4 of \d{4,}.
MinDigits == 4

\* Line 298: the 7 of \d{7}.
OldDigits == 7

\* s.endswith(suffix)
EndsWith(s, suffix) ==
    Len(s) >= Len(suffix) /\ SubSeq(s, Len(s) - Len(suffix) + 1, Len(s)) = suffix

\* s[:-n]
DropLast(s, n) == SubSeq(s, 1, Len(s) - n)

\* \d{min,} on the whole of s.
IsDigitRun(s, min) == Len(s) >= min /\ \A i \in 1..Len(s) : IsDigit(s[i])

\* \d{4,}(?:v\d+)? on the whole of s.
IsRunWithVersion(s) ==
    \/ IsDigitRun(s, MinDigits)
    \/ \E j \in 1..Len(s) :
         /\ s[j] = "v"
         /\ IsDigitRun(SubSeq(s, 1, j - 1), MinDigits)
         /\ IsDigitRun(SubSeq(s, j + 1, Len(s)), 1)

\* Lines 290 and 294: \d{4,}\.\d{4,}(?:v\d+)? on the whole of s.
IsNewId(s) ==
    \E i \in 1..Len(s) :
      /\ s[i] = "."
      /\ IsDigitRun(SubSeq(s, 1, i - 1), MinDigits)
      /\ IsRunWithVersion(SubSeq(s, i + 1, Len(s)))

\* [a-z-]+ on the whole of s.
IsCategory(s) == s # << >> /\ \A i \in 1..Len(s) : s[i] \in AsciiLower \cup {"-"}

\* [a-z-]+(?:\.[A-Z]{2})? on the whole of s.
IsArchive(s) ==
    \/ IsCategory(s)
    \/ /\ Len(s) >= 3
       /\ s[Len(s) - 2] = "."
       /\ s[Len(s) - 1] \in AsciiUpper
       /\ s[Len(s)] \in AsciiUpper
       /\ IsCategory(DropLast(s, 3))

\* An old-style pattern that takes a number of any length.
IsOldId_AnyLength(s) ==
    \E i \in 1..Len(s) :
      /\ s[i] = "/"
      /\ IsArchive(SubSeq(s, 1, i - 1))
      /\ IsDigitRun(SubSeq(s, i + 1, Len(s)), 1)

\* Line 298: [a-z-]+(?:\.[A-Z]{2})?/\d{7} on the whole of s.
IsOldId(s) ==
    \E i \in 1..Len(s) :
      /\ s[i] = "/"
      /\ IsArchive(SubSeq(s, 1, i - 1))
      /\ Len(s) - i = OldDigits
      /\ IsDigitRun(SubSeq(s, i + 1, Len(s)), OldDigits)

\* The $ of the three patterns matches at the end of the string and before a
\* newline that ends the string; no pattern can consume a newline, so a match
\* covers exactly this part.
BeforeDollar(s) == IF EndsWith(s, <<"\n">>) THEN DropLast(s, 1) ELSE s

\* Line 290: https?://arxiv\.org/(?:abs|pdf)/
UrlPrefixes ==
    { <<"h", "t", "t", "p", ":", "/", "/", "a", "r", "x", "i", "v", ".", "o", "r", "g", "/", "a", "b", "s", "/">>,
      <<"h", "t", "t", "p", ":", "/", "/", "a", "r", "x", "i", "v", ".", "o", "r", "g", "/", "p", "d", "f", "/">>,
      <<"h", "t", "t", "p", "s", ":", "/", "/", "a", "r", "x", "i", "v", ".", "o", "r", "g", "/", "a", "b", "s", "/">>,
      <<"h", "t", "t", "p", "s", ":", "/", "/", "a", "r", "x", "i", "v", ".", "o", "r", "g", "/", "p", "d", "f", "/">> }

DotPdf == <<".", "p", "d", "f">>

\* A URL pattern whose group takes the .pdf suffix with it.
MatchUrl_KeepsSuffix(s) ==
    LET t == BeforeDollar(s)
        rests == { SliceFrom(t, Len(pre)) : pre \in { x \in UrlPrefixes : StartsWith(t, x) } }
        ids == { r \in rests : IsNewId(r) \/ (EndsWith(r, DotPdf) /\ IsNewId(DropLast(r, 4))) }
    IN  IF ids = {} THEN PyNone ELSE CHOOSE r \in ids : TRUE

\* Lines 290-292: re.match of the URL pattern; group(1), or None.
MatchUrl(s) ==
    LET t == BeforeDollar(s)
        rests == { SliceFrom(t, Len(pre)) : pre \in { x \in UrlPrefixes : StartsWith(t, x) } }
        ids == { r \in rests : IsNewId(r) }
               \cup { DropLast(r, 4) : r \in { x \in rests : EndsWith(x, DotPdf) /\ IsNewId(DropLast(x, 4)) } }
    IN  IF ids = {} THEN PyNone ELSE CHOOSE r \in ids : TRUE

\* The shape of no argument.
NoShape == [kind |-> "none"]

\* Lines 288-302.
extract_arxiv_id(arg) ==
    IF MatchUrl(arg) # PyNone THEN MatchUrl(arg)
    ELSE IF IsNewId(BeforeDollar(arg)) THEN BeforeDollar(arg)
    ELSE IF IsOldId(BeforeDollar(arg)) THEN arg
    ELSE PyNone

\* ------------------------------------------------------------------- resize
\* Python values of type bool and int; a bool is an int of value 0 or 1.
PyBool(b) == [type |-> "bool", val |-> IF b THEN 1 ELSE 0]

PyIntVal(n) == [type |-> "int", val |-> n]

\* None where an int is optional.
PyNoneVal == [type |-> "NoneType", val |-> 0]

PyTrue == PyBool(TRUE)

PyFalse == PyBool(FALSE)

\* isinstance(v, int): bool is a subclass of int.
IsInstanceInt(v) == v.type \in {"int", "bool"}

\* Line 194: max_dim_to_use = 512.
DefaultMaxDim == 512

\* Lines 193-201: perform_resize and max_dim_to_use. The test of line 196
\* holds for True, which is an int greater than 0, so line 198 assigns True,
\* the int 1, and the branch of line 199 is never taken.
ResizeDecision(option) ==
    IF IsInstanceInt(option) /\ option.val > 0
    THEN [perform_resize |-> TRUE, max_dim_to_use |-> option.val]
    ELSE IF option = PyTrue
    THEN [perform_resize |-> TRUE, max_dim_to_use |-> DefaultMaxDim]
    ELSE [perform_resize |-> FALSE, max_dim_to_use |-> DefaultMaxDim]

Max(a, b) == IF a >= b THEN a ELSE b

Min(a, b) == IF a <= b THEN a ELSE b

\* A scaling that leaves out the max(1, ...).
ResizedSize_NoMinimum(width, height, bound) ==
    IF width > bound \/ height > bound
    THEN IF width > height
         THEN [width |-> bound, height |-> (bound * height) \div width]
         ELSE [width |-> (bound * width) \div height, height |-> bound]
    ELSE [width |-> width, height |-> height]

\* Lines 204-211: the size after the step, for positive width and height;
\* int(a * b / c) of positive ints is the floor of the quotient.
ResizedSize(width, height, bound) ==
    IF width > bound \/ height > bound
    THEN IF width > height
         THEN [width |-> bound, height |-> Max(1, (bound * height) \div width)]
         ELSE [width |-> Max(1, (bound * width) \div height), height |-> bound]
    ELSE [width |-> width, height |-> height]

\* Lines 464-469: the option arxiv_command passes on, from the flag -r and
\* the value of -d (None when not given).
CliResize(resize_images, max_dimension) ==
    IF resize_images
    THEN IF max_dimension # PyNoneVal /\ max_dimension.val # 0 /\ max_dimension.val > 0
         THEN max_dimension
         ELSE PyTrue
    ELSE PyFalse

\* One name=value field of a query string: the name up to the first '=',
\* the value after it, the empty value when there is no '='.
QsField(field) ==
    LET i == IndexOf(field, "=")
    IN  IF i = 0 THEN [name |-> field, value |-> << >>]
        ELSE [name |-> SubSeq(field, 1, i - 1), value |-> SubSeq(field, i + 1, Len(field))]

IsKept(f) == f.value # << >>

\* Line 320: urllib.parse.parse_qs(query_string) with its defaults: fields
\* are separated by '&', and keep_blank_values is False, so a field of empty
\* value is dropped. The fields kept, in order (no escapes in the alphabet).
parse_qs(query_string) ==
    LET fields == Split(query_string, "&")
        nonempty == SelectSeq(fields, LAMBDA f : f # << >>)
    IN  SelectSeq([i \in 1..Len(nonempty) |-> QsField(nonempty[i])], IsKept)

\* options.get(key, []): the values of the fields of that name, in order.
OptionsGet(options, key) ==
    LET hits == SelectSeq(options, LAMBDA f : f.name = key)
    IN  [i \in 1..Len(hits) |-> hits[i].value]

TrueWords == { <<"t", "r", "u", "e">>, <<"1">>, <<"y", "e", "s">>, << >> }

\* Lines 345-359: resize_option_loader from the options of the fragment.
LoaderResize(options) ==
    LET resize_values == OptionsGet(options, <<"r", "e", "s", "i", "z", "e", "_", "i", "m", "a", "g", "e", "s">>) \o OptionsGet(options, <<"r">>)
    IN  IF resize_values = << >> THEN PyFalse
        ELSE LET val == Lower(resize_values[1])
                 pixel_value == PyInt(val)
             IN  IF val \in TrueWords THEN PyTrue
                 ELSE IF pixel_value.ok /\ pixel_value.val > 0 THEN PyIntVal(pixel_value.val)
                 ELSE PyTrue

\* --------------------------------------------------------------- assembler
NoResult == [returned |-> FALSE, text |-> << >>, attachments |-> << >>, source |-> ""]

NoError == [raised |-> FALSE, type |-> "", stage |-> "", cause |-> "", message |-> << >>]

RECURSIVE SumSeq(_)
SumSeq(s) == IF s = << >> THEN 0 ELSE Head(s) + SumSeq(Tail(s))

\* Line 108: the identifier the search is made with.
arxiv_id == extract_arxiv_id(arxiv_id_or_url_main)

\* Line 113: arxiv.Search(id_list=[arxiv_id], max_results=1), as the raw
\* argument would give it.
SearchCall_RawArgument(id) ==
    [op |-> "Search", id_list |-> <<arxiv_id_or_url_main>>, max_results |-> 1]

\* Line 113: arxiv.Search(id_list=[arxiv_id], max_results=1).
SearchCall(id) == [op |-> "Search", id_list |-> <<id>>, max_results |-> 1]

\* Line 126: paper.download_pdf(dirpath=temp_dir_for_pdf).
DownloadCall == [op |-> "download_pdf", id_list |-> << >>, max_results |-> 0]

\* Line 128: fitz.open(pdf_path).
OpenCall == [op |-> "fitz.open", id_list |-> << >>, max_results |-> 0]

\* Line 126: the path download_pdf answers.
pdf_path == <<"/", "t", "m", "p", "/", "f", "a", "k", "e", "_", "p", "a", "p", "e", "r", ".", "p", "d", "f">>

\* str(e) of what a collaborator raised.
CauseText(cause) ==
    CASE cause = "HTTPError" -> <<"P", "a", "g", "e", " ", "r", "e", "q", "u", "e", "s", "t", " ", "r", "e", "s", "u", "l", "t", "e", "d", " ", "i", "n", " ", "H", "T", "T", "P", " ", "5", "0", "0", " ", "(", "h", "t", "t", "p", ":", "/", "/", "f", "a", "k", "e", ".", "e", "x", "p", "o", "r", "t", ".", "a", "r", "x", "i", "v", ".", "o", "r", "g", ")">>
      [] cause = "UnexpectedEmptyPageError" -> <<"P", "a", "g", "e", " ", "o", "f", " ", "r", "e", "s", "u", "l", "t", "s", " ", "w", "a", "s", " ", "u", "n", "e", "x", "p", "e", "c", "t", "e", "d", "l", "y", " ", "e", "m", "p", "t", "y">>
      [] cause = "DownloadError" -> <<"D", "o", "w", "n", "l", "o", "a", "d", " ", "f", "a", "i", "l", "e", "d">>
      [] cause = "open" -> <<"F", "i", "t", "z", " ", "e", "r", "r", "o", "r">>
      [] cause = "page" -> <<"P", "a", "g", "e", " ", "e", "r", "r", "o", "r">>
      [] cause = "image_record" -> <<"'", "i", "m", "a", "g", "e", "'">>
      [] OTHER -> << >>

\* Lines 110-111, 116 and 274: the text of what _process_arxiv_paper raises;
\* what a collaborator raised outside the try leaves with its own text.
MessageOf(stage, cause) ==
    CASE stage = "invalid_id" -> <<"I", "n", "v", "a", "l", "i", "d", " ", "a", "r", "X", "i", "v", " ", "i", "d", "e", "n", "t", "i", "f", "i", "e", "r", " ", "o", "r", " ", "U", "R", "L", " ", "p", "a", "s", "s", "e", "d", " ", "t", "o", " ", "_", "p", "r", "o", "c", "e", "s", "s", "_", "a", "r", "x", "i", "v", "_", "p", "a", "p", "e", "r", ":", " ">> \o arxiv_id_or_url_main \o <<".">>
      [] stage = "no_results" -> <<"N", "o", " ", "p", "a", "p", "e", "r", " ", "f", "o", "u", "n", "d", " ", "f", "o", "r", " ", "a", "r", "X", "i", "v", " ", "I", "D", ":", " ">> \o arxiv_id
      [] stage = "extract" -> <<"F", "a", "i", "l", "e", "d", " ", "t", "o", " ", "e", "x", "t", "r", "a", "c", "t", " ", "c", "o", "n", "t", "e", "n", "t", " ", "f", "r", "o", "m", " ", "P", "D", "F", " ">> \o pdf_path \o <<":", " ">> \o CauseText(cause)
      [] OTHER -> CauseText(cause)

EntryId == "entry_id"

\* Eligibility that looks at the mode alone.
ShouldInclude_ModeAlone(c, counter, pnum) == c.mode \in {"all", "global", "pages"}

\* Eligibility that takes the 0-based page index for the page number.
ShouldInclude_ZeroBasedPage(c, counter, pnum) ==
    CASE c.mode = "all" -> TRUE
      [] c.mode = "global" -> c.indices # {} /\ counter \in c.indices
      [] c.mode = "pages" -> c.indices # {} /\ pnum \in c.indices
      [] OTHER -> FALSE

\* Line 141-153: should_include_this_specific_image.
ShouldInclude(c, counter, pnum) ==
    CASE c.mode = "all" -> TRUE
      [] c.mode = "global" -> c.indices # {} /\ counter \in c.indices
      [] c.mode = "pages" -> c.indices # {} /\ (pnum + 1) \in c.indices
      [] OTHER -> FALSE

\* What Pillow and PyMuPDF can answer for one eligible image.
ImageOutcomes == {"ok", "extract_raises", "bad_record", "process_raises", "bad_dims"}

AsmIdle ==
    /\ pc = "idle"
    /\ image_selection_criteria = Absent
    /\ temp_dir = "none"
    /\ page_num = 0
    /\ page_html_content = << >>
    /\ image_list = 0
    /\ img_idx_on_page = 0
    /\ global_image_document_idx_counter = 0
    /\ current_page_conceptual_refs_for_placeholders = << >>
    /\ current_page_attachments_for_this_page = << >>
    /\ full_html_parts = << >>
    /\ attachments_list = << >>
    /\ ret = NoResult
    /\ error = NoError
    /\ seen_counter = << >>
    /\ images_per_page = << >>
    /\ arxiv_id_or_url_main = << >>
    /\ calls = << >>
    /\ doc_images = << >>
    /\ extract_calls = << >>

\* ------------------------------------------------------------------- loader
\* Lines 315-318: the argument up to its first '?'.
main_argument_part ==
    IF IndexOf(loader_argument, "?") = 0 THEN loader_argument
    ELSE SubSeq(loader_argument, 1, IndexOf(loader_argument, "?") - 1)

\* Lines 315-318: the argument after its first '?'.
query_string ==
    IF IndexOf(loader_argument, "?") = 0 THEN << >>
    ELSE SubSeq(loader_argument, IndexOf(loader_argument, "?") + 1, Len(loader_argument))

\* Lines 320-331: chosen_raw_value_for_images, from the options parse_qs
\* gives for the query string.
ChosenRawValue(query) ==
    LET options == parse_qs(query)
        raw_values_i == OptionsGet(options, <<"i">>)
        raw_values_include_images == OptionsGet(options, <<"i", "n", "c", "l", "u", "d", "e", "_", "i", "m", "a", "g", "e", "s">>)
    IN  IF raw_values_i # << >> THEN raw_values_i[1]
        ELSE IF raw_values_include_images # << >> THEN raw_values_include_images[1]
        ELSE PyNone

\* Line 361.
temp_arxiv_id == extract_arxiv_id(main_argument_part)

NoLoaderResult == [returned |-> FALSE, list |-> << >>]

NoLoaderError ==
    [raised |-> FALSE, type |-> "", message |-> << >>, inner |-> ParsedValue(Absent)]

\* The error of the loader: message is the text up to the text of a
\* parser's error, which inner holds.
LoaderError(message, inner) ==
    [raised |-> TRUE, type |-> "ValueError", message |-> message, inner |-> inner]

NoRef == [page |-> 0, img |-> 0]

\* Line 372: llm.Fragment(content=markdown_text, source=paper_source_url).
Fragment(content, source) ==
    [kind |-> "Fragment", content |-> content, source |-> source, ref |-> NoRef]

\* An llm.Attachment of the list.
Attachment(a) == [kind |-> "Attachment", content |-> << >>, source |-> "", ref |-> a]

\* Lines 379-387: the text of the ValueError raised for what
\* _process_arxiv_paper raised; a ValueError is raised again as it is.
LoaderMessage(e) ==
    CASE e.type = "UnexpectedEmptyPageError" -> <<"a", "r", "X", "i", "v", " ", "s", "e", "a", "r", "c", "h", " ", "r", "e", "t", "u", "r", "n", "e", "d", " ", "a", "n", " ", "u", "n", "e", "x", "p", "e", "c", "t", "e", "d", " ", "e", "m", "p", "t", "y", " ", "p", "a", "g", "e", ".", " ", "C", "h", "e", "c", "k", " ", "t", "h", "e", " ", "I", "D", "/", "U", "R", "L", ".", " ", "E", "r", "r", "o", "r", ":", " ">> \o e.message
      [] e.type = "HTTPError" -> <<"F", "a", "i", "l", "e", "d", " ", "t", "o", " ", "f", "e", "t", "c", "h", " ", "p", "a", "p", "e", "r", " ", "d", "e", "t", "a", "i", "l", "s", " ", "f", "r", "o", "m", " ", "a", "r", "X", "i", "v", ".", " ", "C", "h", "e", "c", "k", " ", "n", "e", "t", "w", "o", "r", "k", " ", "o", "r", " ", "I", "D", "/", "U", "R", "L", ".", " ", "E", "r", "r", "o", "r", ":", " ">> \o e.message
      [] e.type = "ValueError" -> e.message
      [] OTHER -> <<"E", "r", "r", "o", "r", " ", "p", "r", "o", "c", "e", "s", "s", "i", "n", "g", " ", "a", "r", "X", "i", "v", " ", "p", "a", "p", "e", "r", " ">> \o temp_arxiv_id \o <<" ", "f", "o", "r", " ", "f", "r", "a", "g", "m", "e", "n", "t", ":", " ">> \o e.message

LoaderIdle ==
    /\ loader_argument = << >>
    /\ loader_pc = "idle"
    /\ loader_result = NoLoaderResult
    /\ loader_error = NoLoaderError

\* _process_arxiv_paper is called without the loader.
LoaderDirect ==
    /\ loader_argument = << >>
    /\ loader_pc = "direct"
    /\ loader_result = NoLoaderResult
    /\ loader_error = NoLoaderError

LoaderMains == { <<"1", "2", "3", "4", ".", "5", "6", "7", "8">>, <<"h", "t", "t", "p", "s", ":", "/", "/", "a", "r", "x", "i", "v", ".", "o", "r", "g", "/", "a", "b", "s", "/", "1", "2", "3", "4", ".", "5", "6", "7", "8", "v", "2">>, <<"n", "o", "t", " ", "a", "n", " ", "i", "d">> }

\* Query strings with and without the image option, under both names, with
\* and without a value, with a value of no form, and next to a resize option.
LoaderQueries ==
    { << >>, <<"i">>, <<"i", "=">>, <<"i", "=", "a", "l", "l">>, <<"i", "=", "n", "o", "n", "e">>, <<"i", "=", "G", ":", "1">>, <<"i", "=", "P", ":", "2">>, <<"i", "=", "x">>, <<"i", "n", "c", "l", "u", "d", "e", "_", "i", "m", "a", "g", "e", "s", "=", "G", ":", "1", ",", "2">>, <<"i", "n", "c", "l", "u", "d", "e", "_", "i", "m", "a", "g", "e", "s">>, <<"i", "=", "G", ":", "1", "&", "i", "n", "c", "l", "u", "d", "e", "_", "i", "m", "a", "g", "e", "s", "=", "a", "l", "l">>,
      <<"i", "&", "i", "n", "c", "l", "u", "d", "e", "_", "i", "m", "a", "g", "e", "s", "=", "G", ":", "2">>, <<"r", "=", "3", "0", "0", "&", "i", "=", "a", "l", "l">> }

\* Arguments of arxiv_loader: an identifier alone, and one with a query.
LoaderArguments ==
    LoaderMains
    \cup { <<"1", "2", "3", "4", ".", "5", "6", "7", "8">> \o <<"?">> \o qs : qs \in LoaderQueries }
    \cup { m \o <<"?">> \o <<"i", "=", "a", "l", "l">> : m \in LoaderMains }

\* arxiv_loader is entered with its argument.
LoaderCalled ==
    /\ AsmIdle
    /\ loader_argument \in LoaderArguments
    /\ loader_pc = "call"
    /\ loader_result = NoLoaderResult
    /\ loader_error = NoLoaderError

\* Identifier arguments of a direct call: a URL and a string of no form.
DirectArguments == { <<"h", "t", "t", "p", "s", ":", "/", "/", "a", "r", "x", "i", "v", ".", "o", "r", "g", "/", "a", "b", "s", "/", "1", "2", "3", "4", ".", "5", "6", "7", "8", "v", "2">>, <<"n", "o", "t", " ", "a", "n", " ", "i", "d">> }

AsmInit ==
    /\ pc = "start"
    /\ image_selection_criteria \in CriteriaValues
    /\ temp_dir = "none"
    /\ page_num = 0
    /\ page_html_content = << >>
    /\ image_list = 0
    /\ img_idx_on_page = 0
    /\ global_image_document_idx_counter = 0
    /\ current_page_conceptual_refs_for_placeholders = << >>
    /\ current_page_attachments_for_this_page = << >>
    /\ full_html_parts = << >>
    /\ attachments_list = << >>
    /\ ret = NoResult
    /\ error = NoError
    /\ seen_counter = << >>
    /\ images_per_page = << >>
    /\ arxiv_id_or_url_main \in DirectArguments
    /\ calls = << >>
    /\ doc_images = << >>
    /\ extract_calls = << >>

ParseIdle ==
    /\ range_str = << >>
    /\ spec_string = << >>
    /\ base_spec = << >>
    /\ parse_pc = "idle"
    /\ parse_result = ParsedValue(Absent)

IdIdle ==
    /\ argument = << >>
    /\ arg_shape = NoShape
    /\ id_pc = "idle"
    /\ id_result = PyNone

NoCall == [source |-> "none"]

NotResized == [perform_resize |-> FALSE, max_dim_to_use |-> 0, width |-> 0, height |-> 0]

ResizeIdle ==
    /\ resize_call = NoCall
    /\ resize_option = PyFalse
    /\ img_size = [width |-> 0, height |-> 0]
    /\ resize_pc = "idle"
    /\ resized = NotResized

\* Either _process_arxiv_paper is called directly, or arxiv_loader is called.
Init ==
    /\ ParseIdle
    /\ IdIdle
    /\ ResizeIdle
    /\ \/ AsmInit /\ LoaderDirect
       \/ LoaderCalled

\* Raising out of the call: nothing is returned.
Raise(type, stage, cause) ==
    /\ pc' = "raised"
    /\ error' = [raised |-> TRUE, type |-> type, stage |-> stage, cause |-> cause,
                 message |-> MessageOf(stage, cause)]
    /\ ret' = NoResult

\* Lines 113-116: the search raises or finds nothing.
SearchFails ==
    /\ UNCHANGED << parse_vars, id_vars, resize_vars, loader_vars >>
    /\ pc = "start"
    /\ arxiv_id # PyNone
    /\ calls' = Append(calls, SearchCall(arxiv_id))
    /\ \/ Raise("ValueError", "no_results", "")
       \/ \E t \in {"HTTPError", "UnexpectedEmptyPageError"} : Raise(t, "search", t)
    /\ UNCHANGED << image_selection_criteria, temp_dir, page_num, page_html_content,
                    image_list, img_idx_on_page, global_image_document_idx_counter,
                    current_page_conceptual_refs_for_placeholders,
                    current_page_attachments_for_this_page, full_html_parts,
                    attachments_list, seen_counter, images_per_page,
                    arxiv_id_or_url_main, doc_images, extract_calls >>

\* Lines 113-125: a paper is found and the temporary directory is entered.
SearchFinds ==
    /\ UNCHANGED << parse_vars, id_vars, resize_vars, loader_vars >>
    /\ pc = "start"
    /\ arxiv_id # PyNone
    /\ calls' = Append(calls, SearchCall(arxiv_id))
    /\ pc' = "download"
    /\ temp_dir' = "exists"
    /\ UNCHANGED << image_selection_criteria, page_num, page_html_content,
                    image_list, img_idx_on_page, global_image_document_idx_counter,
                    current_page_conceptual_refs_for_placeholders,
                    current_page_attachments_for_this_page, full_html_parts,
                    attachments_list, ret, error, seen_counter, images_per_page,
                    arxiv_id_or_url_main, doc_images, extract_calls >>

\* Line 126: paper.download_pdf gives the path.
DownloadOk ==
    /\ UNCHANGED << parse_vars, id_vars, resize_vars, loader_vars >>
    /\ pc = "download"
    /\ calls' = Append(calls, DownloadCall)
    /\ pc' = "open"
    /\ UNCHANGED << image_selection_criteria, temp_dir, page_num, page_html_content,
                    image_list, img_idx_on_page, global_image_document_idx_counter,
                    current_page_conceptual_refs_for_placeholders,
                    current_page_attachments_for_this_page, full_html_parts,
                    attachments_list, ret, error, seen_counter, images_per_page,
                    arxiv_id_or_url_main, doc_images, extract_calls >>

\* Line 126: paper.download_pdf raises; it is outside the try, inside the
\* with, so the exception leaves unwrapped and the directory is cleaned up.
DownloadFails ==
    /\ UNCHANGED << parse_vars, id_vars, resize_vars, loader_vars >>
    /\ pc = "download"
    /\ calls' = Append(calls, DownloadCall)
    /\ Raise("DownloadError", "download", "DownloadError")
    /\ temp_dir' = "removed"
    /\ UNCHANGED << image_selection_criteria, page_num, page_html_content,
                    image_list, img_idx_on_page, global_image_document_idx_counter,
                    current_page_conceptual_refs_for_placeholders,
                    current_page_attachments_for_this_page, full_html_parts,
                    attachments_list, seen_counter, images_per_page,
                    arxiv_id_or_url_main, doc_images, extract_calls >>

\* A handler that hands back what was accumulated instead of raising.
ExtractionError_ReturnsPartial(cause) ==
    /\ pc' = "returned"
    /\ error' = [raised |-> TRUE, type |-> "ValueError", stage |-> "extract", cause |-> cause,
                 message |-> MessageOf("extract", cause)]
    /\ ret' = [returned |-> TRUE, text |-> Markdownify(Join(full_html_parts)),
               attachments |-> attachments_list, source |-> EntryId]
    /\ temp_dir' = "removed"

\* A handler whose exception path skips the cleanup of the directory.
ExtractionError_LeavesDir(cause) ==
    /\ Raise("ValueError", "extract", cause)
    /\ UNCHANGED temp_dir

\* Lines 273-274 and the exit of the with of line 125: any exception of the
\* try body is wrapped in one ValueError and the directory is removed.
ExtractionError(cause) ==
    /\ Raise("ValueError", "extract", cause)
    /\ temp_dir' = "removed"

\* Line 128: fitz.open succeeds.
OpenOk ==
    /\ UNCHANGED << parse_vars, id_vars, resize_vars, loader_vars >>
    /\ pc = "open"
    /\ calls' = Append(calls, OpenCall)
    /\ pc' = "pages"
    /\ page_num' = 0
    /\ UNCHANGED << image_selection_criteria, temp_dir, page_html_content,
                    image_list, img_idx_on_page, global_image_document_idx_counter,
                    current_page_conceptual_refs_for_placeholders,
                    current_page_attachments_for_this_page, full_html_parts,
                    attachments_list, ret, error, seen_counter, images_per_page,
                    arxiv_id_or_url_main, doc_images, extract_calls >>

\* Line 128: fitz.open raises.
OpenFails ==
    /\ UNCHANGED << parse_vars, id_vars, resize_vars, loader_vars >>
    /\ pc = "open"
    /\ calls' = Append(calls, OpenCall)
    /\ ExtractionError("open")
    /\ UNCHANGED << image_selection_criteria, page_num, page_html_content,
                    image_list, img_idx_on_page, global_image_document_idx_counter,
                    current_page_conceptual_refs_for_placeholders,
                    current_page_attachments_for_this_page, full_html_parts,
                    attachments_list, seen_counter, images_per_page,
                    arxiv_id_or_url_main, doc_images, extract_calls >>

\* Lines 129-136: the next page is read: its markup and, with a criteria,
\* its image list.
BeginPage ==
    /\ UNCHANGED << parse_vars, id_vars, resize_vars, loader_vars >>
    /\ pc = "pages"
    /\ page_num < MaxPages
    /\ \E k \in 0..MaxMarkers : page_html_content' = PageHtml(page_num + 1, k)
    /\ \E n \in 0..(MaxImgs - SumSeq(doc_images)) : doc_images' = Append(doc_images, n)
    /\ IF CriteriaPresent(image_selection_criteria)
       THEN /\ image_list' = doc_images'[Len(doc_images')]
            /\ images_per_page' = Append(images_per_page, image_list')
       ELSE /\ image_list' = 0
            /\ UNCHANGED images_per_page
    /\ img_idx_on_page' = 0
    /\ current_page_conceptual_refs_for_placeholders' = << >>
    /\ current_page_attachments_for_this_page' = << >>
    /\ pc' = "images"
    /\ UNCHANGED << image_selection_criteria, temp_dir, page_num,
                    global_image_document_idx_counter, full_html_parts,
                    attachments_list, ret, error, seen_counter,
                    arxiv_id_or_url_main, calls, extract_calls >>

\* Lines 129-136: iterating the document, get_text or get_images raises.
PageFails ==
    /\ UNCHANGED << parse_vars, id_vars, resize_vars, loader_vars >>
    /\ pc = "pages"
    /\ page_num < MaxPages
    /\ ExtractionError("page")
    /\ UNCHANGED << image_selection_criteria, page_num, page_html_content,
                    image_list, img_idx_on_page, global_image_document_idx_counter,
                    current_page_conceptual_refs_for_placeholders,
                    current_page_attachments_for_this_page, full_html_parts,
                    attachments_list, seen_counter, images_per_page,
                    arxiv_id_or_url_main, calls, doc_images, extract_calls >>

\* A call that always hands over the reference of the first image of the page.
ExtractImageCall_FirstOfPage == [page |-> page_num + 1, img |-> 1]

\* Lines 159-161: xref = img_info[0]; doc.extract_image(xref): the reference
\* of the image of the iteration.
ExtractImageCall == [page |-> page_num + 1, img |-> img_idx_on_page + 1]

\* Line 248: conceptual_ref of the image being processed.
CurrentRef == [page |-> page_num + 1, img |-> img_idx_on_page + 1]

\* Lines 245-253: the attachment holds the re-encoded bytes of that image.
CurrentAttachment == [page |-> page_num + 1, img |-> img_idx_on_page + 1]

\* A counter that restarts on every page.
NextCounter_PerPage == img_idx_on_page + 1

\* Line 138: the counter counts every image found, in document order.
NextCounter == global_image_document_idx_counter + 1

\* Lines 137-257: one iteration of the loop over image_list.
ProcessImage ==
    /\ UNCHANGED << parse_vars, id_vars, resize_vars, loader_vars >>
    /\ pc = "images"
    /\ img_idx_on_page < image_list
    /\ global_image_document_idx_counter' = NextCounter
    /\ seen_counter' = Append(seen_counter, global_image_document_idx_counter')
    /\ extract_calls' =
         IF ShouldInclude(image_selection_criteria,
                          global_image_document_idx_counter', page_num)
         THEN Append(extract_calls, ExtractImageCall)   \* lines 159-161
         ELSE extract_calls                             \* line 156
    /\ IF ~ShouldInclude(image_selection_criteria,
                         global_image_document_idx_counter', page_num)
       THEN \* line 156: continue
            /\ img_idx_on_page' = img_idx_on_page + 1
            /\ UNCHANGED << pc, temp_dir, ret, error,
                            current_page_conceptual_refs_for_placeholders,
                            current_page_attachments_for_this_page >>
       ELSE \E outcome \in ImageOutcomes :
              CASE outcome = "ok" ->
                     \* lines 245-253
                     /\ current_page_conceptual_refs_for_placeholders' =
                          Append(current_page_conceptual_refs_for_placeholders, CurrentRef)
                     /\ current_page_attachments_for_this_page' =
                          Append(current_page_attachments_for_this_page, CurrentAttachment)
                     /\ img_idx_on_page' = img_idx_on_page + 1
                     /\ UNCHANGED << pc, temp_dir, ret, error >>
                [] outcome = "bad_record" ->
                     \* lines 166-167 are in no inner try: base_image["image"] or
                     \* base_image["ext"].lower() raising reaches line 273
                     /\ ExtractionError("image_record")
                     /\ UNCHANGED << img_idx_on_page,
                                     current_page_conceptual_refs_for_placeholders,
                                     current_page_attachments_for_this_page >>
                [] OTHER ->
                     \* lines 162-164, 189-191, 255-256: the image is skipped
                     /\ img_idx_on_page' = img_idx_on_page + 1
                     /\ UNCHANGED << pc, temp_dir, ret, error,
                                     current_page_conceptual_refs_for_placeholders,
                                     current_page_attachments_for_this_page >>
    /\ UNCHANGED << image_selection_criteria, page_num, page_html_content,
                    image_list, full_html_parts, attachments_list, images_per_page,
                    arxiv_id_or_url_main, calls, doc_images >>

\* Lines 259-271: the markers of the page are replaced and the page appended.
FinishPage ==
    /\ UNCHANGED << parse_vars, id_vars, resize_vars, loader_vars >>
    /\ pc = "images"
    /\ img_idx_on_page = image_list
    /\ full_html_parts' =
         Append(full_html_parts,
                ReSubImg(page_html_content, current_page_conceptual_refs_for_placeholders))
    /\ attachments_list' = attachments_list \o current_page_attachments_for_this_page
    /\ page_num' = page_num + 1
    /\ pc' = "pages"
    /\ UNCHANGED << image_selection_criteria, temp_dir, page_html_content,
                    image_list, img_idx_on_page, global_image_document_idx_counter,
                    current_page_conceptual_refs_for_placeholders,
                    current_page_attachments_for_this_page, ret, error,
                    seen_counter, images_per_page,
                    arxiv_id_or_url_main, calls, doc_images, extract_calls >>

\* Lines 276-280: the document is exhausted; both with blocks are left and
\* the result is returned.
Return ==
    /\ UNCHANGED << parse_vars, id_vars, resize_vars, loader_vars >>
    /\ pc = "pages"
    /\ pc' = "returned"
    /\ temp_dir' = "removed"
    /\ ret' = [returned |-> TRUE,
               text |-> Markdownify(Join(full_html_parts)),
               attachments |-> attachments_list,
               source |-> EntryId]
    /\ UNCHANGED << image_selection_criteria, page_num, page_html_content,
                    image_list, img_idx_on_page, global_image_document_idx_counter,
                    current_page_conceptual_refs_for_placeholders,
                    current_page_attachments_for_this_page, full_html_parts,
                    attachments_list, error, seen_counter, images_per_page,
                    arxiv_id_or_url_main, calls, doc_images, extract_calls >>

\* Lines 108-111: the argument holds no identifier.
InvalidId ==
    /\ UNCHANGED << parse_vars, id_vars, resize_vars, loader_vars >>
    /\ pc = "start"
    /\ arxiv_id = PyNone
    /\ Raise("ValueError", "invalid_id", "")
    /\ UNCHANGED << image_selection_criteria, temp_dir, page_num, page_html_content,
                    image_list, img_idx_on_page, global_image_document_idx_counter,
                    current_page_conceptual_refs_for_placeholders,
                    current_page_attachments_for_this_page, full_html_parts,
                    attachments_list, seen_counter, images_per_page,
                    arxiv_id_or_url_main, calls, doc_images, extract_calls >>

\* Lines 315-366: the options are read and the identifier is checked; then
\* _process_arxiv_paper is entered with the criteria and the resize option.
LoaderBegin ==
    /\ UNCHANGED << parse_vars, id_vars >>
    /\ loader_pc = "call"
    /\ LET chosen_raw_value_for_images == ChosenRawValue(query_string)
           image_criteria_loader == parse_image_selection_spec(chosen_raw_value_for_images)
       IN  IF image_criteria_loader.raised
           THEN \* line 342
                /\ loader_pc' = "raised"
                /\ loader_error' =
                     LoaderError(<<"I", "n", "v", "a", "l", "i", "d", " ", "i", "m", "a", "g", "e", " ", "s", "e", "l", "e", "c", "t", "i", "o", "n", " ", "o", "p", "t", "i", "o", "n", " ", "i", "n", " ", "f", "r", "a", "g", "m", "e", "n", "t", " ", "(", "'">> \o chosen_raw_value_for_images \o <<"'", ")", ":", " ">>,
                                 image_criteria_loader)
                /\ UNCHANGED << asm_vars, resize_option >>
           ELSE IF temp_arxiv_id = PyNone
           THEN \* lines 362-364
                /\ loader_pc' = "raised"
                /\ loader_error' =
                     LoaderError(<<"I", "n", "v", "a", "l", "i", "d", " ", "a", "r", "X", "i", "v", " ", "i", "d", "e", "n", "t", "i", "f", "i", "e", "r", " ", "o", "r", " ", "U", "R", "L", " ", "i", "n", " ", "f", "r", "a", "g", "m", "e", "n", "t", " ", "a", "r", "g", "u", "m", "e", "n", "t", ":", " ">> \o main_argument_part \o <<".">>, ParsedValue(Absent))
                /\ UNCHANGED << asm_vars, resize_option >>
           ELSE \* lines 366-370
                /\ loader_pc' = "processing"
                /\ pc' = "start"
                /\ arxiv_id_or_url_main' = main_argument_part
                /\ image_selection_criteria' = image_criteria_loader.value
                /\ resize_option' = LoaderResize(parse_qs(query_string))
                /\ UNCHANGED << loader_error, temp_dir, page_num, page_html_content,
                                image_list, img_idx_on_page,
                                global_image_document_idx_counter,
                                current_page_conceptual_refs_for_placeholders,
                                current_page_attachments_for_this_page,
                                full_html_parts, attachments_list, ret, error,
                                seen_counter, images_per_page, calls, doc_images,
                                extract_calls >>
    /\ UNCHANGED << loader_argument, loader_result, resize_call, img_size, resize_pc, resized >>

\* Lines 366-377: the text becomes a Fragment and the attachments follow it.
LoaderReturn ==
    /\ UNCHANGED << asm_vars, parse_vars, id_vars, resize_vars >>
    /\ loader_pc = "processing"
    /\ pc = "returned"
    /\ loader_result' =
         [returned |-> TRUE,
          list |-> <<Fragment(ret.text, ret.source)>>
                   \o [i \in 1..Len(ret.attachments) |-> Attachment(ret.attachments[i])]]
    /\ loader_pc' = "returned"
    /\ UNCHANGED << loader_argument, loader_error >>

\* Lines 379-387: whatever _process_arxiv_paper raised leaves as a ValueError.
LoaderRaise ==
    /\ UNCHANGED << asm_vars, parse_vars, id_vars, resize_vars >>
    /\ loader_pc = "processing"
    /\ pc = "raised"
    /\ loader_error' = LoaderError(LoaderMessage(error), ParsedValue(Absent))
    /\ loader_pc' = "raised"
    /\ UNCHANGED << loader_argument, loader_result >>

Next ==
    \/ LoaderBegin
    \/ LoaderReturn
    \/ LoaderRaise
    \/ InvalidId
    \/ SearchFails
    \/ SearchFinds
    \/ DownloadOk
    \/ DownloadFails
    \/ OpenOk
    \/ OpenFails
    \/ BeginPage
    \/ PageFails
    \/ ProcessImage
    \/ FinishPage
    \/ Return

Spec == Init /\ [][Next]_vars

\* ------------------------------------------------------------ parser inputs
\* Parts a range string is built from: numbers, pairs, reversed and zero
\* bounds, signs, padding, empty and malformed parts.
RangeTokens ==
    { << >>, <<" ">>, <<"1">>, <<"3">>, <<"1", "2">>, <<"0">>, <<"x">>,
      <<" ", "2", "\t">>, <<"+", "2">>, <<"-", "1">>,
      <<"1", "-", "2">>, <<"2", "-", "2">>, <<"3", "-", "1">>, <<"0", "-", "1">>,
      <<"1", " ", "-", " ", "3">>, <<"1", "-", "2", "-", "3">>, <<"1", "-">> }

RECURSIVE JoinWith(_, _)
\* sep.join(parts)
JoinWith(parts, sep) ==
    IF parts = << >> THEN << >>
    ELSE IF Len(parts) = 1 THEN Head(parts)
    ELSE Head(parts) \o <<sep>> \o JoinWith(Tail(parts), sep)

\* "1,3-5,7", the example of the docstring of line 27.
RangeExamples == { <<"1", ",", "3", "-", "5", ",", "7">> }

RangeInputs ==
    {JoinWith(ts, ",") : ts \in UNION {[1..k -> RangeTokens] : k \in 0..MaxTokens}}
    \cup RangeExamples

\* Strings that are no form of the selection language.
OtherSpecs ==
    { <<"x">>, <<"g">>, <<"a", "l">>, <<"a", "l", "l", "1">>, <<":", "1">>,
      <<"1", "-", "2">>, <<"G", "1">>, <<"n", "o", "n", "e", "s">>, <<"2">>,
      <<"a", " ", "l", "l">> }

SelectionBases ==
    {<< >>} \cup AllWords \cup NoneWords \cup OtherSpecs
    \cup {<<"G", ":">> \o r : r \in RangeInputs}
    \cup {<<"P", ":">> \o r : r \in RangeInputs}

Pad(n) == [i \in 1..n |-> " "]

\* The assembler is not running.
NotParsed == ParsedValue(Absent)

\* A call of parse_ranges_to_set, or a call of parse_image_selection_spec
\* with None or with a form of the language, padded and in some letter case.
ParseInit ==
    /\ AsmIdle
    /\ LoaderIdle
    /\ IdIdle
    /\ ResizeIdle
    /\ parse_result = NotParsed
    /\ \/ /\ parse_pc = "ranges"
          /\ range_str \in RangeInputs
          /\ spec_string = << >>
          /\ base_spec = << >>
       \/ /\ parse_pc = "selection"
          /\ range_str = << >>
          /\ \/ spec_string = PyNone /\ base_spec = PyNone
             \/ \E b \in SelectionBases, lead \in 0..MaxPad, trail \in 0..MaxPad :
                  /\ base_spec = b
                  /\ \E c \in {b, Lower(b), Upper(b)} :
                       spec_string = Pad(lead) \o c \o Pad(trail)

CallParseRanges ==
    /\ UNCHANGED << asm_vars, id_vars, resize_vars, loader_vars >>
    /\ parse_pc = "ranges"
    /\ parse_result' = parse_ranges_to_set(range_str)
    /\ parse_pc' = "done_ranges"
    /\ UNCHANGED << range_str, spec_string, base_spec >>

CallParseSelection ==
    /\ UNCHANGED << asm_vars, id_vars, resize_vars, loader_vars >>
    /\ parse_pc = "selection"
    /\ parse_result' = parse_image_selection_spec(spec_string)
    /\ parse_pc' = "done_selection"
    /\ UNCHANGED << range_str, spec_string, base_spec >>

ParseNext ==
    \/ CallParseRanges
    \/ CallParseSelection

SpecParse == ParseInit /\ [][ParseNext]_vars

\* -------------------------------------------------------- identifier inputs
DigitSource == <<"2", "3", "1", "0", "6", "8", "2", "5", "9", "7", "4">>

DigitRun(n) == SubSeq(DigitSource, 1, n)

\* No version, v1, v12, and a v with no number.
Versions == { << >>, <<"v", "1">>, <<"v", "1", "2">>, <<"v">> }

\* Digit runs around the dot from one short of the minimum up to MaxRun.
NewShapes ==
    { [kind |-> "new",
       core |-> DigitRun(l) \o <<".">> \o DigitRun(r) \o v,
       valid |-> (l >= MinDigits /\ r >= MinDigits /\ v # <<"v">>)] :
      l \in (MinDigits - 1)..MaxRun, r \in (MinDigits - 1)..MaxRun, v \in Versions }

Categories == { <<"h", "e", "p", "-", "t", "h">>, <<"m", "a", "t", "h">>, <<"c", "s">>, <<"C", "s">>, << >> }

Subjects == { << >>, <<".", "G", "T">>, <<".", "A", "I">>, <<".", "g", "t">>, <<".", "A">>, <<".", "A", "B", "C">> }

\* Archive names with and without subject class, numbers of 6, 7 and 8 digits.
OldShapes ==
    { [kind |-> "old",
       core |-> c \o sub \o <<"/">> \o DigitRun(n),
       valid |-> (c \in { <<"h", "e", "p", "-", "t", "h">>, <<"m", "a", "t", "h">>, <<"c", "s">> }
                  /\ sub \in { << >>, <<".", "G", "T">>, <<".", "A", "I">> }
                  /\ n = OldDigits)] :
      c \in Categories, sub \in Subjects, n \in (OldDigits - 1)..(OldDigits + 1) }

\* Strings of neither form.
JunkShapes ==
    { [kind |-> "junk", core |-> c, valid |-> FALSE] :
      c \in { << >>, <<"n", "o", "t", " ", "a", "n", " ", "i", "d">>, <<"2", "3", "1", "0">>, <<"c", "s", ".", "A", "I", "/">> } }

Bare == [scheme |-> << >>, host |-> << >>, path |-> << >>]

Schemes == { <<"h", "t", "t", "p", ":", "/", "/">>, <<"h", "t", "t", "p", "s", ":", "/", "/">>, <<"f", "t", "p", ":", "/", "/">>, << >> }

Hosts == { <<"a", "r", "x", "i", "v", ".", "o", "r", "g", "/">>, <<"e", "x", "a", "m", "p", "l", "e", ".", "c", "o", "m", "/">>, <<"a", "r", "x", "i", "v", "X", "o", "r", "g", "/">> }

Paths == { <<"a", "b", "s", "/">>, <<"p", "d", "f", "/">>, <<"l", "i", "s", "t", "/">> }

Wrappers == {Bare} \cup [scheme : Schemes, host : Hosts, path : Paths]

\* The wrappers the URL pattern of line 290 names.
Supported(w) ==
    /\ w.scheme \in { <<"h", "t", "t", "p", ":", "/", "/">>, <<"h", "t", "t", "p", "s", ":", "/", "/">> }
    /\ w.host = <<"a", "r", "x", "i", "v", ".", "o", "r", "g", "/">>
    /\ w.path \in { <<"a", "b", "s", "/">>, <<"p", "d", "f", "/">> }

\* The argument a shape stands for.
TextOf(sh) ==
    sh.wrap.scheme \o sh.wrap.host \o sh.wrap.path \o sh.core
    \o (IF sh.pdf THEN DotPdf ELSE << >>)
    \o (IF sh.nl THEN <<"\n">> ELSE << >>)

\* A call of extract_arxiv_id with an identifier or a near miss, bare or in a
\* URL, with or without .pdf and a final newline.
IdInit ==
    /\ AsmIdle
    /\ LoaderIdle
    /\ ParseIdle
    /\ ResizeIdle
    /\ id_pc = "call"
    /\ id_result = PyNone
    /\ \E core \in NewShapes \cup OldShapes \cup JunkShapes, w \in Wrappers,
          pdf \in BOOLEAN, nl \in BOOLEAN :
         /\ arg_shape = [kind |-> core.kind, core |-> core.core, valid |-> core.valid,
                         wrap |-> w, pdf |-> pdf, nl |-> nl]
         /\ argument = TextOf(arg_shape)

CallExtractId ==
    /\ UNCHANGED << asm_vars, parse_vars, resize_vars, loader_vars >>
    /\ id_pc = "call"
    /\ id_result' = extract_arxiv_id(argument)
    /\ id_pc' = "done"
    /\ UNCHANGED << argument, arg_shape >>

IdNext ==
    \/ CallExtractId

SpecId == IdInit /\ [][IdNext]_vars

\* ------------------------------------------------------------ resize inputs
\* Sides around the default bound, and the sides of the example 1000x500.
LargeDims == { 256, 500, 511, 512, 513, 1000 }

\* Sides of an opened image: line 189 lets only positive sizes through.
Dims == 1..MaxDim \cup LargeDims

PixelBounds == 1..MaxDim \cup { 300, DefaultMaxDim }

\* Values of resize_option given to _process_arxiv_paper directly.
DirectOptions == { PyTrue, PyFalse } \cup { PyIntVal(n) : n \in {-1, 0} \cup PixelBounds }

\* Values of --max-dimension: not given, non-positive, positive.
CliDimensions == { PyNoneVal } \cup { PyIntVal(n) : n \in {-1, 0} \cup PixelBounds }

\* Query strings of a fragment with and without resize options.
ResizeQueries ==
    { << >>, <<"r", "=", "t", "r", "u", "e">>, <<"r", "=", "T", "R", "U", "E">>, <<"r", "=", "1">>, <<"r", "=", "y", "e", "s">>, <<"r", "=", "3", "0", "0">>, <<"r", "=", "3">>, <<"r", "=", "0">>, <<"r", "=", "-", "1">>, <<"r", "=", "a", "x">>, <<"r">>,
      <<"r", "=">>, <<"r", "e", "s", "i", "z", "e", "_", "i", "m", "a", "g", "e", "s", "=", "2", "&", "r", "=", "3", "0", "0">>, <<"r", "=", "3", "0", "0", "&", "r", "e", "s", "i", "z", "e", "_", "i", "m", "a", "g", "e", "s", "=", "2">>, <<"r", "=", "&", "r", "=", "4">> }

\* One image is about to pass lines 193-211; the resize option was given
\* directly, or is still to be worked out by the command or by the loader.
ResizeInit ==
    /\ AsmIdle
    /\ LoaderIdle
    /\ ParseIdle
    /\ IdIdle
    /\ resized = NotResized
    /\ \E w \in Dims, h \in Dims : img_size = [width |-> w, height |-> h]
    /\ \/ /\ resize_pc = "image"
          /\ resize_call = [source |-> "direct"]
          /\ resize_option \in DirectOptions
       \/ /\ resize_pc = "cli"
          /\ \E flag \in BOOLEAN, d \in CliDimensions :
               resize_call = [source |-> "cli", resize_images |-> flag, max_dimension |-> d]
          /\ resize_option = PyFalse
       \/ /\ resize_pc = "fragment"
          /\ \E qs \in ResizeQueries :
               resize_call = [source |-> "fragment", query_string |-> qs]
          /\ resize_option = PyFalse

\* Lines 464-469.
ResolveCli ==
    /\ UNCHANGED << asm_vars, parse_vars, id_vars, loader_vars >>
    /\ resize_pc = "cli"
    /\ resize_option' = CliResize(resize_call.resize_images, resize_call.max_dimension)
    /\ resize_pc' = "image"
    /\ UNCHANGED << resize_call, img_size, resized >>

\* Lines 320 and 345-359.
ResolveFragment ==
    /\ UNCHANGED << asm_vars, parse_vars, id_vars, loader_vars >>
    /\ resize_pc = "fragment"
    /\ resize_option' = LoaderResize(parse_qs(resize_call.query_string))
    /\ resize_pc' = "image"
    /\ UNCHANGED << resize_call, img_size, resized >>

\* Lines 193-211 for one image.
ApplyResize ==
    /\ UNCHANGED << asm_vars, parse_vars, id_vars, loader_vars >>
    /\ resize_pc = "image"
    /\ LET d == ResizeDecision(resize_option)
           size == IF d.perform_resize
                   THEN ResizedSize(img_size.width, img_size.height, d.max_dim_to_use)
                   ELSE img_size
       IN  resized' = [perform_resize |-> d.perform_resize,
                       max_dim_to_use |-> d.max_dim_to_use,
                       width |-> size.width, height |-> size.height]
    /\ resize_pc' = "done"
    /\ UNCHANGED << resize_call, resize_option, img_size >>

ResizeNext ==
    \/ ResolveCli
    \/ ResolveFragment
    \/ ApplyResize

SpecResize == ResizeInit /\ [][ResizeNext]_vars

\* ------------------------------------------------------------------ claims
IsPlaceholder(item) == item.kind = "placeholder"

\* The images the placeholders of a text denote, in text order.
PlaceholderRefs(text) ==
    LET ph == SelectSeq(text, IsPlaceholder)
    IN  [i \in 1..Len(ph) |-> [page |-> ph[i].page, img |-> ph[i].img]]

\* The document-wide 1-based discovery index of image img of page p, from the
\* image lists of the pages read.
GlobalIndexOf(p, img) == SumSeq(SubSeq(images_per_page, 1, p - 1)) + img

\* Eligibility as the selection language defines it.
Eligible(c, ref) ==
    \/ c.mode = "all"
    \/ c.mode = "global" /\ GlobalIndexOf(ref.page, ref.img) \in c.indices
    \/ c.mode = "pages" /\ ref.page \in c.indices

\* Every image that has a placeholder or an attachment so far.
ProducedRefs ==
    {attachments_list[i] : i \in 1..Len(attachments_list)}
    \cup {current_page_attachments_for_this_page[i] :
            i \in 1..Len(current_page_attachments_for_this_page)}
    \cup {current_page_conceptual_refs_for_placeholders[i] :
            i \in 1..Len(current_page_conceptual_refs_for_placeholders)}
    \cup {ret.attachments[i] : i \in 1..Len(ret.attachments)}
    \cup {PlaceholderRefs(Join(full_html_parts))[i] :
            i \in 1..Len(PlaceholderRefs(Join(full_html_parts)))}
    \cup {PlaceholderRefs(ret.text)[i] : i \in 1..Len(PlaceholderRefs(ret.text))}

\* C1: the returned text has as many placeholders as the attachment list has
\* entries, and the i-th placeholder denotes the image of the i-th attachment.
C1_PlaceholdersZipAttachments ==
    ret.returned => PlaceholderRefs(ret.text) = ret.attachments

\* C2: with a criteria present, the counter value seen by the k-th image
\* enumerated in the document is k, and the counter is the number of images
\* enumerated so far, over all pages.
C2_CounterIsDiscoveryIndex ==
    /\ \A k \in 1..Len(seen_counter) : seen_counter[k] = k
    /\ global_image_document_idx_counter = Len(seen_counter)
    /\ Len(seen_counter) <= SumSeq(images_per_page)
    /\ pc \in {"pages", "returned"} => Len(seen_counter) = SumSeq(images_per_page)

\* A Global run over two pages with images where the last image was not kept.
C2_Witness ==
    /\ pc = "returned"
    /\ image_selection_criteria = Global({1})
    /\ images_per_page = <<1, 2>>
    /\ seen_counter = <<1, 2, 3>>
    /\ ret.attachments = << >>

\* C3: an image has a placeholder or an attachment only if it is eligible:
\* any under All, those whose discovery index is in S under Global(S), those
\* on a page whose number is in S under Pages(S), none without a criteria.
C3_OnlyEligibleProduced ==
    \A ref \in ProducedRefs : Eligible(image_selection_criteria, ref)

\* Pages({2}) on three pages with an image each: page 2 alone contributes.
C3_Witness ==
    /\ pc = "returned"
    /\ image_selection_criteria = Pages({2})
    /\ images_per_page = <<1, 1, 1>>
    /\ ret.attachments = <<[page |-> 2, img |-> 1]>>
    /\ PlaceholderRefs(ret.text) = <<[page |-> 2, img |-> 1]>>

\* C4: a failure confined to one image never makes the call raise: an error
\* of the extraction stage comes from opening or reading the pages only.
C4_ImageFailureNeverRaises ==
    (error.raised /\ error.stage = "extract") => error.cause \in {"open", "page"}

\* C5: when opening the PDF or reading a page raises, the call ends raising
\* one ValueError that wraps the cause and returns nothing.
C5_ExtractionErrorReturnsNothing ==
    /\ error.raised => (pc = "raised" /\ ret = NoResult)
    /\ ret.returned => ~error.raised
    /\ (error.raised /\ error.cause \in {"open", "page"}) =>
           (error.type = "ValueError" /\ error.stage = "extract")
    /\ pc = "raised" => error.raised

\* A page fails after an earlier page gave an attachment.
C5_Witness ==
    /\ pc = "raised"
    /\ error.cause = "page"
    /\ attachments_list # << >>
    /\ full_html_parts # << >>
    /\ ret = NoResult

\* C6: the temporary directory is gone when the call has ended, whichever
\* way it ended, and it exists as long as the PDF is downloaded and read.
C6_TempDirScoped ==
    /\ pc \in {"returned", "raised"} => temp_dir # "exists"
    /\ pc \in {"download", "open", "pages", "images"} => temp_dir = "exists"
    /\ pc = "start" => temp_dir = "none"

\* The call raised while reading a page and the directory is removed.
C6_Witness ==
    /\ pc = "raised"
    /\ error.stage = "extract"
    /\ page_num > 0
    /\ temp_dir = "removed"

IsDecimal(ds) == ds # << >> /\ \A i \in 1..Len(ds) : IsDigit(ds[i])

\* The integers a token written in decimal, with an optional sign, denotes.
IntegersDenoted(tok) ==
    LET t == Strip(tok)
    IN  (IF IsDecimal(t) THEN {DigitsVal(t)} ELSE {})
        \cup (IF t # << >> /\ Head(t) = "+" /\ IsDecimal(Tail(t))
              THEN {DigitsVal(Tail(t))} ELSE {})
        \cup (IF t # << >> /\ Head(t) = "-" /\ IsDecimal(Tail(t))
              THEN {0 - DigitsVal(Tail(t))} ELSE {})

\* The sets a token stands for: {n} for a positive integer n, start..end for
\* a pair start-end with 0 < start <= end; none for any other token.
TokenSets(tok) ==
    {{n} : n \in {m \in IntegersDenoted(tok) : m > 0}}
    \cup UNION { {a..b : <<a, b>> \in
                    {ab \in IntegersDenoted(SubSeq(tok, 1, i - 1))
                              \X IntegersDenoted(SubSeq(tok, i + 1, Len(tok))) :
                       0 < ab[1] /\ ab[1] <= ab[2]}} :
                 i \in {j \in 1..Len(tok) : tok[j] = "-"} }

\* The comma-separated tokens of a string, whitespace around them ignored.
TokensOf(str) ==
    IF str = << >> THEN {}
    ELSE {Strip(Split(str, ",")[i]) : i \in 1..Len(Split(str, ","))}

UnionOfTokens(toks) == UNION UNION {TokenSets(tok) : tok \in toks}

\* C7 as stated: a string all of whose tokens are positive integers or pairs
\* gives the union of what they stand for, and any other token, an empty one
\* included, makes the call fail.
C7_AnyBadTokenFails ==
    parse_pc = "done_ranges" =>
        IF \A tok \in TokensOf(range_str) : TokenSets(tok) # {}
        THEN ~parse_result.raised /\ parse_result.set = UnionOfTokens(TokensOf(range_str))
        ELSE parse_result.raised

\* C7, amended: the same with the empty tokens skipped: the result is the
\* union of what the non-empty tokens stand for when each of them is a
\* positive integer or a pair, and the call fails when one of them is not.
C7_UnionOfNonEmptyTokens ==
    parse_pc = "done_ranges" =>
        LET toks == TokensOf(range_str) \ {<< >>}
        IN  IF \A tok \in toks : TokenSets(tok) # {}
            THEN ~parse_result.raised /\ parse_result.set = UnionOfTokens(toks)
            ELSE parse_result.raised /\ parse_result.set = {}

\* "1,3-5,7" gives {1,3,4,5,7}.
C7_Witness ==
    /\ parse_pc = "done_ranges"
    /\ range_str = <<"1", ",", "3", "-", "5", ",", "7">>
    /\ parse_result = ParsedSet({1, 3, 4, 5, 7})

\* C8: None gives None; the empty string and all, true, yes, 1 give the
\* criteria All; none, false, no, 0 give None.
C8_Keywords ==
    parse_pc = "done_selection" =>
        /\ spec_string = PyNone => parse_result = ParsedValue(Absent)
        /\ spec_string \in {<< >>, <<"a", "l", "l">>, <<"t", "r", "u", "e">>,
                            <<"y", "e", "s">>, <<"1">>}
             => parse_result = ParsedValue([mode |-> "all", indices |-> {}])
        /\ spec_string \in {<<"n", "o", "n", "e">>, <<"f", "a", "l", "s", "e">>,
                            <<"n", "o">>, <<"0">>}
             => parse_result = ParsedValue(Absent)

\* The empty string was parsed to All.
C8_Witness ==
    /\ parse_pc = "done_selection"
    /\ spec_string = << >>
    /\ parse_result.value = All
    /\ ~parse_result.raised

\* Same criteria, or a failure of the same kind.
SameOutcome(a, b) == a.raised = b.raised /\ a.value = b.value /\ a.err = b.err

\* C9: a selection string with whitespace added around it or its letter case
\* changed parses to the outcome of the string itself.
C9_PaddingAndCaseIgnored ==
    parse_pc = "done_selection" =>
        SameOutcome(parse_result, parse_image_selection_spec(base_spec))

\* C10: a criteria of mode global or pages holds a non-empty set of positive
\* integers, and a G: or P: prefix whose remainder gives the empty set fails.
C10_IndexedSetsNonEmpty ==
    parse_pc = "done_selection" =>
        /\ (~parse_result.raised /\ parse_result.value.mode \in {"global", "pages"}) =>
               /\ parse_result.value.indices # {}
               /\ \A n \in parse_result.value.indices : n > 0
        /\ (/\ spec_string # PyNone
            /\ \E prefix \in {<<"g", ":">>, <<"p", ":">>} : StartsWith(Lower(spec_string), prefix)
            /\ TokensOf(SliceFrom(spec_string, 2)) \subseteq {<< >>})
             => parse_result.raised /\ parse_result.err \in {"global", "pages"}

\* "G:," failed.
C10_Witness ==
    /\ parse_pc = "done_selection"
    /\ spec_string = <<"G", ":", ",">>
    /\ parse_result.raised
    /\ parse_result.err = "global"

\* The eight keywords, in lower case.
KeywordStrings ==
    { <<"a", "l", "l">>, <<"t", "r", "u", "e">>, <<"y", "e", "s">>, <<"1">>,
      <<"n", "o", "n", "e">>, <<"f", "a", "l", "s", "e">>, <<"n", "o">>, <<"0">> }

\* C11: a selection string that, trimmed and lower-cased, is not empty, no
\* keyword and starts with neither g: nor p:, fails with the error of the
\* grammar ("Invalid image selection format: '<input>'. Expected ..."), which
\* quotes the input as given; no criteria is returned.
C11_UnknownFormFails ==
    (/\ parse_pc = "done_selection"
     /\ spec_string # PyNone
     /\ Strip(Lower(spec_string)) \notin KeywordStrings \cup {<< >>}
     /\ ~StartsWith(Strip(Lower(spec_string)), <<"g", ":">>)
     /\ ~StartsWith(Strip(Lower(spec_string)), <<"p", ":">>))
    => /\ parse_result.raised
       /\ parse_result.err = "format"
       /\ parse_result.echo = spec_string
       /\ parse_result.value = Absent

\* " G1 " in upper case with padding failed and is quoted as given.
C11_Witness ==
    /\ parse_pc = "done_selection"
    /\ spec_string = <<" ", "G", "1", " ">>
    /\ parse_result.raised
    /\ parse_result.err = "format"
    /\ parse_result.echo = <<" ", "G", "1", " ">>

\* C12 as stated: every valid identifier, new-style or old-style, comes back
\* from each supported URL form and from the bare form.
C12_RoundTripAllIds ==
    (/\ id_pc = "done"
     /\ arg_shape.valid
     /\ ~arg_shape.nl
     /\ \/ Supported(arg_shape.wrap)
        \/ arg_shape.wrap = Bare /\ ~arg_shape.pdf)
    => id_result = arg_shape.core

\* C12: a valid identifier given bare comes back unchanged; a valid new-style
\* identifier comes back from http or https, arxiv.org/abs/ or arxiv.org/pdf/,
\* with or without .pdf; a valid old-style identifier in such a URL gives None.
C12_RoundTrip ==
    (id_pc = "done" /\ arg_shape.valid /\ ~arg_shape.nl)
    => /\ (arg_shape.wrap = Bare /\ ~arg_shape.pdf) => id_result = arg_shape.core
       /\ (Supported(arg_shape.wrap) /\ arg_shape.kind = "new") => id_result = arg_shape.core
       /\ (Supported(arg_shape.wrap) /\ arg_shape.kind = "old") => id_result = PyNone

\* https://arxiv.org/pdf/2310.2310v12.pdf gave 2310.2310v12.
C12_Witness ==
    /\ id_pc = "done"
    /\ argument = <<"h", "t", "t", "p", "s", ":", "/", "/", "a", "r", "x", "i", "v", ".", "o", "r", "g", "/", "p", "d", "f", "/", "2", "3", "1", "0", ".", "2", "3", "1", "0", "v", "1", "2", ".", "p", "d", "f">>
    /\ arg_shape.valid
    /\ id_result = <<"2", "3", "1", "0", ".", "2", "3", "1", "0", "v", "1", "2">>

\* C13: the result is the identifier of the first pattern the argument
\* matches (URL form, bare new-style, bare old-style, each allowing one final
\* newline) and None for every other string: another host, no http or https
\* scheme, fewer than four digits on a side of the dot, an old-style number
\* of other than 7 digits, a subject class not of two capitals.
C13_FirstPatternOrNone ==
    id_pc = "done"
    => LET url == Supported(arg_shape.wrap) /\ arg_shape.kind = "new" /\ arg_shape.valid
           bare == arg_shape.wrap = Bare /\ ~arg_shape.pdf /\ arg_shape.valid
       IN  /\ url => id_result = arg_shape.core
           /\ (bare /\ arg_shape.kind = "new") => id_result = arg_shape.core
           /\ (bare /\ arg_shape.kind = "old") => id_result = argument
           /\ (~url /\ ~bare) => id_result = PyNone

\* cs.AI/231068, an old-style form with a 6-digit number, gave None.
C13_Witness ==
    /\ id_pc = "done"
    /\ argument = <<"c", "s", ".", "A", "I", "/", "2", "3", "1", "0", "6", "8">>
    /\ id_result = PyNone

\* C14: resize_option True (from -r without a positive --max-dimension, or
\* from r=true) makes the step resize with the bound 512; a positive int n
\* makes it resize with the bound n; False makes it not resize.
C14_BoundByOption ==
    resize_pc = "done"
    => /\ resize_option = PyTrue
            => resized.perform_resize /\ resized.max_dim_to_use = DefaultMaxDim
       /\ (resize_option.type = "int" /\ resize_option.val > 0)
            => resized.perform_resize /\ resized.max_dim_to_use = resize_option.val
       /\ resize_option = PyFalse => ~resized.perform_resize
       /\ (resize_call.source = "cli" /\ resize_call.resize_images
           /\ resize_call.max_dimension = PyNoneVal) => resize_option = PyTrue
       /\ (resize_call.source = "fragment"
           /\ resize_call.query_string = <<"r", "=", "t", "r", "u", "e">>)
            => resize_option = PyTrue

\* C15: with resizing performed under the bound B, an image with a side over
\* B gets its longer side set to B and its shorter side to
\* max(1, floor(B * shorter / longer)); an image with no side over B keeps
\* its size; afterwards both sides are between 1 and B.
C15_ScaledToBound ==
    (resize_pc = "done" /\ resized.perform_resize)
    => LET B == resized.max_dim_to_use
           w == img_size.width
           h == img_size.height
           longer == IF w >= h THEN w ELSE h
           shorter == IF w >= h THEN h ELSE w
           scaled == IF (B * shorter) \div longer >= 1 THEN (B * shorter) \div longer ELSE 1
       IN  /\ (w > B \/ h > B)
                => /\ w > h => resized.width = B /\ resized.height = scaled
                   /\ h > w => resized.height = B /\ resized.width = scaled
                   /\ w = h => resized.width = B /\ resized.height = B
           /\ (w <= B /\ h <= B) => resized.width = w /\ resized.height = h
           /\ resized.width \in 1..B
           /\ resized.height \in 1..B

\* 1000x500 under the explicit bound 512 became 512x256.
C15_Witness ==
    /\ resize_pc = "done"
    /\ resize_option = PyIntVal(DefaultMaxDim)
    /\ img_size = [width |-> 1000, height |-> 500]
    /\ resized.perform_resize
    /\ resized.width = 512
    /\ resized.height = 256

\* No image work has been done: no page was asked for its images, the
\* discovery counter is 0 and nothing was extracted or attached.
NoImageWork ==
    /\ images_per_page = << >>
    /\ image_list = 0
    /\ seen_counter = << >>
    /\ global_image_document_idx_counter = 0
    /\ current_page_conceptual_refs_for_placeholders = << >>
    /\ current_page_attachments_for_this_page = << >>
    /\ attachments_list = << >>
    /\ ret.attachments = << >>

\* A page has just been appended and its markup is still at hand.
PageJustAppended == pc = "pages" /\ full_html_parts # << >>

\* C20 as stated: with no criteria no image work is done and the markup of a
\* page is appended as obtained, image-embed markers included.
C20_AbsentAppendsUnchanged ==
    image_selection_criteria = Absent
    => /\ NoImageWork
       /\ PageJustAppended => full_html_parts[Len(full_html_parts)] = page_html_content

\* C20: with no criteria no image work is done, and the markup of a page is
\* appended with every image-embed marker taken out and the rest as obtained;
\* no appended part holds a marker or a placeholder.
C20_AbsentAppendsWithoutMarkers ==
    image_selection_criteria = Absent
    => /\ NoImageWork
       /\ PageJustAppended =>
            full_html_parts[Len(full_html_parts)] = SelectSeq(page_html_content, IsNotImg)
       /\ \A i \in 1..Len(full_html_parts) : full_html_parts[i] = <<TextItem(i)>>

\* Without criteria, a page that embeds an image and whose markup holds a
\* marker was appended as its text alone.
C20_Witness ==
    /\ image_selection_criteria = Absent
    /\ PageJustAppended
    /\ doc_images # << >>
    /\ doc_images[Len(doc_images)] > 0
    /\ Len(page_html_content) > 1
    /\ full_html_parts[Len(full_html_parts)] = <<TextItem(page_num)>>

\* sub occurs in s as a run of consecutive characters.
Contains(s, sub) ==
    \E i \in 0..(Len(s) - Len(sub)) : SubSeq(s, i + 1, i + Len(sub)) = sub

\* The loader has read its options and entered _process_arxiv_paper.
LoaderEntered == loader_pc \in {"processing", "returned", "raised"} /\ pc # "idle"

\* C16: a fragment whose options are i or include_images without a value is
\* processed with criteria All; with i=SPEC the criteria is the parse of
\* SPEC; with neither option no images are asked for.
C16_OptionWithoutValueIsAll ==
    LoaderEntered
    => /\ query_string \in { <<"i">>, <<"i", "=">>, <<"i", "n", "c", "l", "u", "d", "e", "_", "i", "m", "a", "g", "e", "s">> } => image_selection_criteria = All
       /\ (StartsWith(query_string, <<"i", "=">>) /\ IndexOf(query_string, "&") = 0)
            => image_selection_criteria =
                 parse_image_selection_spec(SliceFrom(query_string, 2)).value
       /\ query_string = <<"i", "=", "G", ":", "1">> => image_selection_criteria = Global({1})
       /\ query_string = <<"i", "=", "P", ":", "2">> => image_selection_criteria = Pages({2})
       /\ query_string = <<"i", "n", "c", "l", "u", "d", "e", "_", "i", "m", "a", "g", "e", "s", "=", "G", ":", "1", ",", "2">> => image_selection_criteria = Global({1, 2})
       /\ query_string = << >> => image_selection_criteria = Absent

\* The placeholders of a text.
PlaceholderCount(text) == Len(SelectSeq(text, IsPlaceholder))

\* C17: for a bare identifier without options the loader returns the text
\* Fragment, whose source is the entry_id of the paper, followed by one
\* attachment per image embedded in the PDF, in page order, and the text holds
\* one placeholder per attachment.
C17_BareIdGivesEveryImage ==
    (loader_pc = "returned" /\ loader_argument = main_argument_part)
    => LET list == loader_result.list
       IN  /\ Len(list) = 1 + SumSeq(doc_images)
           /\ list[1].kind = "Fragment"
           /\ list[1].source = EntryId
           /\ \A i \in 2..Len(list) : list[i].kind = "Attachment"
           /\ \A i \in 2..Len(list), j \in 2..Len(list) :
                i < j => list[i].ref.page <= list[j].ref.page
           /\ PlaceholderCount(list[1].content) = Len(list) - 1

\* C18: when the search, the download or the extraction fails, the loader
\* raises a ValueError, returns nothing, and the message holds the identifier
\* followed at once by ": " and the message of the cause.
C18_MessageNamesIdThenCause ==
    (loader_pc = "raised" /\ error.raised /\ error.stage \in {"search", "download", "extract"})
    => /\ loader_error.raised
       /\ loader_error.type = "ValueError"
       /\ ~loader_result.returned
       /\ Contains(loader_error.message, temp_arxiv_id \o <<":", " ">> \o error.message)

\* The identifier the arguments of the loader stand for.
IdOfMain == IF main_argument_part = <<"h", "t", "t", "p", "s", ":", "/", "/", "a", "r", "x", "i", "v", ".", "o", "r", "g", "/", "a", "b", "s", "/", "1", "2", "3", "4", ".", "5", "6", "7", "8", "v", "2">> THEN <<"1", "2", "3", "4", ".", "5", "6", "7", "8", "v", "2">> ELSE main_argument_part

\* C19: when the search finds nothing, the loader raises a ValueError whose
\* message holds "No paper found for arXiv ID: <id>"; one search was made,
\* with id_list=[<id>] and max_results=1, and there was no download, no
\* temporary directory and no opening of a PDF.
C19_NoResultsOneSearch ==
    (loader_pc = "raised" /\ error.raised /\ error.stage = "no_results")
    => /\ loader_error.raised
       /\ loader_error.type = "ValueError"
       /\ ~loader_result.returned
       /\ Contains(loader_error.message, <<"N", "o", " ", "p", "a", "p", "e", "r", " ", "f", "o", "u", "n", "d", " ", "f", "o", "r", " ", "a", "r", "X", "i", "v", " ", "I", "D", ":", " ">> \o IdOfMain)
       /\ calls = << [op |-> "Search", id_list |-> <<IdOfMain>>, max_results |-> 1] >>
       /\ temp_dir = "none"

\* For the URL of 1234.5678v2 nothing was found: one search, with that
\* identifier, and the error names it.
C19_Witness ==
    /\ loader_pc = "raised"
    /\ error.stage = "no_results"
    /\ main_argument_part = <<"h", "t", "t", "p", "s", ":", "/", "/", "a", "r", "x", "i", "v", ".", "o", "r", "g", "/", "a", "b", "s", "/", "1", "2", "3", "4", ".", "5", "6", "7", "8", "v", "2">>
    /\ Len(calls) = 1
    /\ calls[1].id_list = << <<"1", "2", "3", "4", ".", "5", "6", "7", "8", "v", "2">> >>
    /\ loader_error.message = <<"N", "o", " ", "p", "a", "p", "e", "r", " ", "f", "o", "u", "n", "d", " ", "f", "o", "r", " ", "a", "r", "X", "i", "v", " ", "I", "D", ":", " ">> \o <<"1", "2", "3", "4", ".", "5", "6", "7", "8", "v", "2">>

\* The call returned the empty set and raised nothing.
ReturnedEmptySet ==
    parse_pc = "done_ranges" /\ ~parse_result.raised /\ parse_result.set = {}

\* C22 as stated: only the empty string gives the empty set without error.
C22_EmptySetOnlyForEmptyString == ReturnedEmptySet => range_str = << >>

\* C22: the empty set comes back without error exactly for the strings made
\* of commas and whitespace alone, the empty string among them; every other
\* string gives a non-empty set or fails.
C22_EmptySetIffNoContent ==
    parse_pc = "done_ranges"
    => (ReturnedEmptySet
          <=> \A i \in 1..Len(range_str) : range_str[i] \in Whitespace \cup {","})

\* " , " gave the empty set and no error.
C22_Witness ==
    /\ ReturnedEmptySet
    /\ range_str = <<" ", ",", " ">>

\* The number of markers among the first i items of a markup.
MarkerRank(html, i) == Cardinality({j \in 1..i : html[j].kind = "img"})

Dropped == [kind |-> "dropped", page |-> 0, img |-> 0]

IsNotDropped(item) == item # Dropped

\* A markup with its j-th marker turned into the placeholder of the j-th
\* reference, and with the markers beyond the references taken out.
Rewritten(html, refs) ==
    SelectSeq([i \in 1..Len(html) |->
                 IF html[i].kind # "img" THEN html[i]
                 ELSE IF MarkerRank(html, i) <= Len(refs)
                      THEN Placeholder(refs[MarkerRank(html, i)])
                      ELSE Dropped],
              IsNotDropped)

\* C21: the part appended for a page is its markup with the j-th marker
\* replaced by the j-th placeholder produced for the page and the markers
\* beyond them removed; no part holds a marker, and the placeholders of the
\* part of page p all belong to page p.
C21_MarkersTakePlaceholdersInOrder ==
    /\ PageJustAppended =>
         full_html_parts[Len(full_html_parts)] =
           Rewritten(page_html_content, current_page_conceptual_refs_for_placeholders)
    /\ \A p \in 1..Len(full_html_parts) : \A j \in 1..Len(full_html_parts[p]) :
         /\ full_html_parts[p][j].kind # "img"
         /\ full_html_parts[p][j].kind = "placeholder" => full_html_parts[p][j].page = p

\* A second page with two markers and one placeholder was appended as its
\* text followed by that placeholder.
C21_Witness ==
    /\ PageJustAppended
    /\ page_num = 2
    /\ page_html_content = PageHtml(2, 2)
    /\ Len(current_page_conceptual_refs_for_placeholders) = 1
    /\ full_html_parts[2] =
         <<TextItem(2), Placeholder(current_page_conceptual_refs_for_placeholders[1])>>
    /\ \E j \in 1..Len(full_html_parts[1]) : full_html_parts[1][j].kind = "placeholder"

\* The images of the pages whose image lists were read, as references.
DiscoveredRefs ==
    {r \in [page : 1..Len(images_per_page), img : 1..MaxImgs] :
       r.img <= images_per_page[r.page]}

\* The images embedded in the pages read, as references.
EmbeddedRefs ==
    {r \in [page : 1..Len(doc_images), img : 1..MaxImgs] : r.img <= doc_images[r.page]}

IsText(item) == item.kind = "text"

\* a comes before b in the document: an earlier page, or the same page and
\* an earlier image of it.
Before(a, b) == a.page < b.page \/ (a.page = b.page /\ a.img < b.img)

\* C25: when the call returns, the text holds the text of every page read
\* once, in ascending page order, whether or not the page gave images, and
\* the attachments are in strictly ascending order of page and of image
\* within the page; while pages are read, one part per page is kept in page
\* order.
C25_PagesAndAttachmentsInOrder ==
    /\ ret.returned =>
         /\ SelectSeq(ret.text, IsText) = [p \in 1..page_num |-> TextItem(p)]
         /\ Len(doc_images) = page_num
         /\ \A i \in 1..Len(ret.attachments), j \in 1..Len(ret.attachments) :
              i < j => Before(ret.attachments[i], ret.attachments[j])
         /\ \A i \in 1..Len(ret.attachments) : ret.attachments[i] \in EmbeddedRefs
    /\ pc \in {"pages", "returned"} =>
         /\ Len(full_html_parts) = page_num
         /\ \A p \in 1..Len(full_html_parts) :
              SelectSeq(full_html_parts[p], IsText) = <<TextItem(p)>>
    /\ \A i \in 1..Len(attachments_list), j \in 1..Len(attachments_list) :
         i < j => Before(attachments_list[i], attachments_list[j])

\* A run over three pages, of which the second gave no attachment, returned
\* the three texts and attachments of the first and of the third page.
C25_Witness ==
    /\ ret.returned
    /\ page_num = 3
    /\ Len(SelectSeq(ret.text, IsText)) = 3
    /\ Len(ret.attachments) >= 2
    /\ ret.attachments[1].page = 1
    /\ ret.attachments[Len(ret.attachments)].page = 3
    /\ \A i \in 1..Len(ret.attachments) : ret.attachments[i].page # 2

\* The criteria rejects every image of the document read: global indices
\* beyond the images found, or pages that hold no image.
RejectsEveryImage ==
    \/ /\ image_selection_criteria.mode = "global"
       /\ image_selection_criteria.indices \cap 1..SumSeq(doc_images) = {}
    \/ /\ image_selection_criteria.mode = "pages"
       /\ \A p \in image_selection_criteria.indices :
            p > Len(doc_images) \/ doc_images[p] = 0

\* What a run without criteria returns as text for a document whose page p
\* holds ks[p] markers.
AbsentRunText(ks) ==
    Markdownify(Join([p \in 1..Len(ks) |-> ReSubImg(PageHtml(p, ks[p]), << >>)]))

====
